---- MODULE Spec2Model ----
(***************************************************************************)
(* Model of the MAAS network-interface-link resource                       *)
(* (maas/resource_maas_network_interface_link.go): the Create, Read,       *)
(* Update and Delete handlers and the lifecycle-aware unlinkSubnet.        *)
(* Every gateway call of a handler is one step, so that the order of the   *)
(* calls and the effect of a failure at each call are visible.             *)
(***************************************************************************)
EXTENDS Integers, Sequences, FiniteSets, TLC

(* ------------------------------ bounds -------------------------------- *)
NumIfaces == 2
MaxInitLinks == 2
MaxOps == 1

Ifaces == 1..NumIfaces
Procs == {1, 2}
Main == 1

(* --------------------------- node statuses ---------------------------- *)
Valid == {"New", "Ready", "Allocated", "Broken"}

Transitional ==
  {"Commissioning", "Deploying", "Releasing", "DiskErasing",
   "EnteringRescueMode", "ExitingRescueMode", "Testing"}

NonTransitional ==
  {"FailedCommissioning", "Missing", "Reserved", "Deployed", "Retired",
   "FailedDeployment", "FailedReleasing", "FailedDiskErasing", "RescueMode",
   "FailedEnteringRescueMode", "FailedExitingRescueMode", "FailedTesting"}

Statuses == Valid \cup Transitional \cup NonTransitional \cup {"Default"}
Unobserved == "unobserved"

\* Classify with a default arm that takes an unlisted status for a valid one.
ClassifyDefaultValid(s) ==
  IF s \in Transitional THEN "Transitional"
  ELSE IF s \in NonTransitional THEN "NonTransitional"
  ELSE "Valid"

\* Classify with the default arm falling into the last case of the switch.
ClassifyDefaultLastCase(s) ==
  IF s \in Valid THEN "Valid"
  ELSE IF s \in Transitional THEN "Transitional"
  ELSE "NonTransitional"

\* The branch the switch on machine.Status takes.
Classify(s) ==
  IF s \in Valid THEN "Valid"
  ELSE IF s \in Transitional THEN "Transitional"
  ELSE IF s \in NonTransitional THEN "NonTransitional"
  ELSE "Unknown"

(* ------------------------------ values -------------------------------- *)
\* mode / ip_address of the link params (schema "mode", "ip_address"): the
\* links a handler creates are STATIC with an address, the links it finds
\* are AUTO.
Addressing == { [mode |-> "STATIC", ip |-> "10.0.0.5"] }

LinkParams ==
  { [mode |-> a.mode, ip |-> a.ip, gw |-> g] : a \in Addressing, g \in BOOLEAN }

OK == [ok |-> TRUE, from |-> "", kind |-> ""]
Err(c, k) == [ok |-> FALSE, from |-> c, kind |-> k]
NoRet == [ok |-> FALSE, from |-> "none", kind |-> "none"]

NoOp == [kind |-> "none", iface |-> 0, linkId |-> 0, snap |-> <<>>, params |-> [mode |-> "", ip |-> "", gw |-> FALSE]]
NoLink == [id |-> 0, mode |-> "", ip |-> "", gw |-> FALSE]

Call(c, r, a) == [call |-> c, res |-> r, arg |-> a]

VARIABLES
  status,      \* lifecycle status of the node as the running handler has seen
               \* or set it; Unobserved while no handler has fetched the node
               \* (between handlers the management system moves the node
               \* through its lifecycle on its own)
  nodeExists,  \* whether the management system still has the node
  links,       \* links[i]: the ordered links of interface i
  nextId,      \* the id the management system gives the next link
  ops,         \* ops[p]: number of handlers p has entered
  pc,          \* pc[p]: position of invocation p
  op,          \* op[p]: the handler p runs, its arguments, and for Create the
               \* links of the resolved interface (snap) and the id it saves
  todo,        \* todo[p]: link ids the range loop of Create has still to visit
  cur,         \* cur[p]: linkID argument of the running unlinkSubnet
  machine,     \* machine[p]: machine.Status between client.Machine.Get and
               \* the first call of the case the switch took (nothing reads
               \* it later); "none" otherwise
  branch,      \* branch[p]: the case of the switch the unlinkSubnet entered
               \* last is in; "none" when it took none
  calls,       \* calls[p]: gateway calls issued by the running handler, in order
  terr,        \* terr[p]: value the last unlinkSubnet returned
  ret,         \* ret[p]: value the handler returned
  readback,    \* readback[p]: link found by getNetworkInterfaceLink
  overlap      \* overlap[p]: another handler has been running at some time
               \* since the handler of p was entered (history of the run)

vars == <<status, nodeExists, links, nextId, ops, pc, op, todo, cur, machine, branch,
          calls, terr, ret, readback, overlap>>

gateway == <<status, nodeExists, links, nextId>>

(* ----------------------------- helpers -------------------------------- *)
SeqToSet(s) == { s[k] : k \in 1..Len(s) }
LinkIds(ls) == { ls[k].id : k \in 1..Len(ls) }
IdsOf(ls) == [k \in 1..Len(ls) |-> ls[k].id]
AllLinks == UNION { SeqToSet(links[i]) : i \in Ifaces }
Upd(f, p, v) == [f EXCEPT ![p] = v]
Log(p, c, r, a) == Upd(calls, p, Append(calls[p], Call(c, r, a)))

RECURSIVE RemoveLink(_, _)
RemoveLink(ls, id) ==
  IF ls = <<>> THEN <<>>
  ELSE IF Head(ls).id = id THEN RemoveLink(Tail(ls), id)
  ELSE <<Head(ls)>> \o RemoveLink(Tail(ls), id)

(* ------------- the management system behind the client ---------------- *)
\* Link Gateway: link subnet. The new link is appended to the interface's
\* links and carries the params, default_gateway included.
GwLinkSubnet(ls, id, params) ==
  Append(ls, [id |-> id, mode |-> params.mode, ip |-> params.ip, gw |-> params.gw])

\* Link Gateway: unlink subnet removes the link with the given id.
GwUnlinkSubnet(ls, id) == RemoveLink(ls, id)

\* Link Gateway: clear default gateways of the node, on every interface.
GwClearDefaultGateways(all) ==
  [i \in Ifaces |-> [k \in 1..Len(all[i]) |-> [all[i][k] EXCEPT !.gw = FALSE]]]

\* Link Gateway: set the default gateway on one link of one interface.
GwSetDefaultGateway(ls, id) ==
  [k \in 1..Len(ls) |-> IF ls[k].id = id THEN [ls[k] EXCEPT !.gw = TRUE] ELSE ls[k]]

\* Lifecycle Gateway: the status the node has when an abort has been
\* accepted (the interrupted operation is undone, or is still winding down).
AbortResult == {"Allocated", "Deploying"}

\* Lifecycle Gateway: the status the node has when a release has been
\* accepted (released at once, or still releasing).
ReleaseResult == {"Ready", "Releasing"}

(* ------------------------------- Init --------------------------------- *)
\* The interfaces as the management system holds them before the first
\* handler runs: the links made so far have the ids 1..MaxInitLinks; link k
\* is on interface owner[k], or is gone (owner[k] = 0); the link holder, if
\* it is still there, holds the default gateway.
InitLinks(owner, holder) ==
  [i \in Ifaces |->
     LET RECURSIVE Build(_)
         Build(k) ==
           IF k > MaxInitLinks THEN <<>>
           ELSE IF owner[k] = i
                THEN <<[id |-> k, mode |-> "AUTO", ip |-> "", gw |-> (holder = k)]>> \o Build(k + 1)
                ELSE Build(k + 1)
     IN Build(1)]

Init ==
  /\ status = Unobserved
  /\ nodeExists = TRUE
  /\ \E owner \in [1..MaxInitLinks -> Ifaces \cup {0}], holder \in 0..MaxInitLinks :
       /\ (holder # 0) => (owner[holder] # 0)
       /\ links = InitLinks(owner, holder)
  /\ nextId = MaxInitLinks + 1
  /\ ops = [p \in Procs |-> 0]
  /\ pc = [p \in Procs |-> "idle"]
  /\ op = [p \in Procs |-> NoOp]
  /\ todo = [p \in Procs |-> <<>>]
  /\ cur = [p \in Procs |-> 0]
  /\ machine = [p \in Procs |-> "none"]
  /\ branch = [p \in Procs |-> "none"]
  /\ calls = [p \in Procs |-> <<>>]
  /\ terr = [p \in Procs |-> NoRet]
  /\ ret = [p \in Procs |-> NoRet]
  /\ readback = [p \in Procs |-> NoLink]
  /\ overlap = [p \in Procs |-> FALSE]

(* --------------------------- handler entry ---------------------------- *)
\* The (interface, link id) pairs a resource of the configuration can name:
\* a link the interface has, or one that is gone (link ids are never reused
\* and a link never moves to another interface).
Targets ==
  { t \in Ifaces \X (1..(nextId - 1)) :
      \/ t[2] \in LinkIds(links[t[1]])
      \/ \A i \in Ifaces : t[2] \notin LinkIds(links[i]) }

Idle(p) == pc[p] = "idle"

\* The handler of p has been entered and has not returned.
Running(p) == pc[p] \notin {"idle", "done", "panic"}

\* A handler is entered: the configuration asks for at most MaxOps of them.
Enabled(p) == Idle(p) /\ ops[p] < MaxOps

\* Locals of a handler that has just been entered.
Enter(p, o) ==
  /\ ops' = Upd(ops, p, ops[p] + 1)
  /\ op' = Upd(op, p, o)
  /\ calls' = Upd(calls, p, <<>>)
  /\ machine' = Upd(machine, p, "none")
  /\ branch' = Upd(branch, p, "none")
  /\ terr' = Upd(terr, p, NoRet)
  /\ readback' = Upd(readback, p, NoLink)
  /\ overlap' = [q \in Procs |->
                   IF q = p THEN \E r \in Procs \ {p} : Running(r)
                   ELSE overlap[q] \/ Running(q)]

\* getMachineOrDeviceSystemID / getNetworkInterface / getSubnet failed:
\* the handler returns the error before any call of its own.
ResolveFails(p, o) ==
  /\ Enter(p, o)
  /\ pc' = Upd(pc, p, "done")
  /\ ret' = Upd(ret, p, Err("Resolve", "fail"))
  /\ UNCHANGED <<todo, cur>>

\* resourceNetworkInterfaceLinkCreate up to the first call of
\* createNetworkInterfaceLink: the range loop runs over the links the
\* resolved interface had.
CreateStart(p) ==
  /\ Enabled(p)
  /\ \E i \in Ifaces, params \in LinkParams, resolved \in BOOLEAN :
       LET snapshot == IdsOf(links[i])
           o == [kind |-> "create", iface |-> i, linkId |-> 0, snap |-> snapshot, params |-> params]
       IN IF ~resolved THEN ResolveFails(p, o)
          ELSE /\ Enter(p, o)
               /\ ret' = Upd(ret, p, NoRet)
               /\ IF snapshot = <<>>
                  THEN /\ pc' = Upd(pc, p, "linkSubnet")
                       /\ UNCHANGED <<todo, cur>>
                  ELSE /\ pc' = Upd(pc, p, "fetch")
                       /\ cur' = Upd(cur, p, Head(snapshot))
                       /\ todo' = Upd(todo, p, Tail(snapshot))
  /\ UNCHANGED gateway

\* resourceNetworkInterfaceLinkDelete up to deleteNetworkInterfaceLink.
DeleteStart(p) ==
  /\ Enabled(p)
  /\ \E t \in Targets, resolved \in BOOLEAN :
       LET o == [kind |-> "delete", iface |-> t[1], linkId |-> t[2], snap |-> <<>>, params |-> NoOp.params]
       IN IF ~resolved THEN ResolveFails(p, o)
          ELSE /\ Enter(p, o)
               /\ ret' = Upd(ret, p, NoRet)
               /\ pc' = Upd(pc, p, "fetch")
               /\ cur' = Upd(cur, p, t[2])
               /\ todo' = Upd(todo, p, <<>>)
  /\ UNCHANGED gateway

\* UpdateStart with the clear left out when a default gateway is to be set.
UpdateStartNoClear(p) ==
  /\ Enabled(p)
  /\ \E t \in Targets, want \in BOOLEAN, resolved \in BOOLEAN :
       LET o == [kind |-> "update", iface |-> t[1], linkId |-> t[2], snap |-> <<>>,
                 params |-> [NoOp.params EXCEPT !.gw = want]]
       IN IF ~resolved THEN ResolveFails(p, o)
          ELSE /\ Enter(p, o)
               /\ ret' = Upd(ret, p, NoRet)
               /\ pc' = Upd(pc, p, IF want THEN "setGw" ELSE "clearGw")
               /\ UNCHANGED <<todo, cur>>
  /\ UNCHANGED gateway

\* UpdateStart replacing the link (unlink, then link again) to update it.
UpdateStartRecreate(p) ==
  /\ Enabled(p)
  /\ \E t \in Targets, want \in BOOLEAN, resolved \in BOOLEAN :
       LET o == [kind |-> "update", iface |-> t[1], linkId |-> t[2], snap |-> <<>>,
                 params |-> [NoOp.params EXCEPT !.gw = want]]
       IN IF ~resolved THEN ResolveFails(p, o)
          ELSE /\ Enter(p, o)
               /\ ret' = Upd(ret, p, NoRet)
               /\ pc' = Upd(pc, p, "unlink")
               /\ cur' = Upd(cur, p, t[2])
               /\ UNCHANGED todo
  /\ UNCHANGED gateway

\* resourceNetworkInterfaceLinkUpdate up to the ClearDefaultGateways call.
UpdateStart(p) ==
  /\ Enabled(p)
  /\ \E t \in Targets, want \in BOOLEAN, resolved \in BOOLEAN :
       LET o == [kind |-> "update", iface |-> t[1], linkId |-> t[2], snap |-> <<>>,
                 params |-> [NoOp.params EXCEPT !.gw = want]]
       IN IF ~resolved THEN ResolveFails(p, o)
          ELSE /\ Enter(p, o)
               /\ ret' = Upd(ret, p, NoRet)
               /\ pc' = Upd(pc, p, "clearGw")
               /\ UNCHANGED <<todo, cur>>
  /\ UNCHANGED gateway

\* resourceNetworkInterfaceLinkRead up to getNetworkInterfaceLink.
ReadStart(p) ==
  /\ Enabled(p)
  /\ \E t \in Targets, resolved \in BOOLEAN :
       LET o == [kind |-> "read", iface |-> t[1], linkId |-> t[2], snap |-> <<>>, params |-> NoOp.params]
       IN IF ~resolved THEN ResolveFails(p, o)
          ELSE /\ Enter(p, o)
               /\ ret' = Upd(ret, p, NoRet)
               /\ pc' = Upd(pc, p, "read")
               /\ UNCHANGED <<todo, cur>>
  /\ UNCHANGED gateway

(* --------------------------- unlinkSubnet ----------------------------- *)
\* TeardownReturn with the range loop of Create going on after an error.
TeardownReturnContinue(p, e) ==
  /\ terr' = Upd(terr, p, e)
  /\ IF op[p].kind = "delete"
     THEN /\ ret' = Upd(ret, p, e)
          /\ pc' = Upd(pc, p, "done")
          /\ UNCHANGED <<todo, cur>>
     ELSE IF todo[p] = <<>>
     THEN /\ pc' = Upd(pc, p, "linkSubnet")
          /\ UNCHANGED <<ret, todo, cur>>
     ELSE /\ pc' = Upd(pc, p, "fetch")
          /\ cur' = Upd(cur, p, Head(todo[p]))
          /\ todo' = Upd(todo, p, Tail(todo[p]))
          /\ UNCHANGED ret

\* unlinkSubnet returns e to its caller. deleteNetworkInterfaceLink returns
\* it as it is; the range loop of createNetworkInterfaceLink returns an
\* error at once and otherwise goes on to the next link, or to LinkSubnet.
TeardownReturn(p, e) ==
  /\ terr' = Upd(terr, p, e)
  /\ IF ~e.ok
     THEN /\ ret' = Upd(ret, p, e)
          /\ pc' = Upd(pc, p, "done")
          /\ UNCHANGED <<todo, cur>>
     ELSE IF op[p].kind = "delete"
     THEN /\ ret' = Upd(ret, p, OK)
          /\ pc' = Upd(pc, p, "done")
          /\ UNCHANGED <<todo, cur>>
     ELSE IF todo[p] = <<>>
     THEN /\ pc' = Upd(pc, p, "linkSubnet")
          /\ UNCHANGED <<ret, todo, cur>>
     ELSE /\ pc' = Upd(pc, p, "fetch")
          /\ cur' = Upd(cur, p, Head(todo[p]))
          /\ todo' = Upd(todo, p, Tail(todo[p]))
          /\ UNCHANGED ret

\* FetchFailed returning the error of client.Machine.Get instead of nil.
FetchFailedPropagate(p, k) == TeardownReturn(p, Err("GetMachine", k))

\* What unlinkSubnet does when client.Machine.Get returned the error kind k.
FetchFailed(p, k) == TeardownReturn(p, OK)

\* Dispatch with the transitional case falling into the release-only branch.
DispatchSkipAbort(p, s) ==
  IF Classify(s) = "Unknown"
  THEN TeardownReturn(p, Err("UnsafeState", s)) /\ branch' = Upd(branch, p, "none")
  ELSE /\ pc' = Upd(pc, p, IF Classify(s) = "Valid" THEN "unlink" ELSE "release")
       /\ branch' = Upd(branch, p, IF Classify(s) = "Valid" THEN "Valid" ELSE "NonTransitional")
       /\ terr' = Upd(terr, p, NoRet)
       /\ UNCHANGED <<ret, todo, cur>>

\* Dispatch with the non-transitional case falling into the abort branch.
DispatchAlwaysAbort(p, s) ==
  IF Classify(s) = "Unknown"
  THEN TeardownReturn(p, Err("UnsafeState", s)) /\ branch' = Upd(branch, p, "none")
  ELSE /\ pc' = Upd(pc, p, IF Classify(s) = "Valid" THEN "unlink" ELSE "abort")
       /\ branch' = Upd(branch, p, IF Classify(s) = "Valid" THEN "Valid" ELSE "Transitional")
       /\ terr' = Upd(terr, p, NoRet)
       /\ UNCHANGED <<ret, todo, cur>>

\* Where the switch on machine.Status goes.
Dispatch(p, s) ==
  IF Classify(s) = "Unknown"
  THEN TeardownReturn(p, Err("UnsafeState", s)) /\ branch' = Upd(branch, p, "none")
  ELSE /\ pc' = Upd(pc, p, CASE Classify(s) = "Valid" -> "unlink"
                              [] Classify(s) = "Transitional" -> "abort"
                              [] Classify(s) = "NonTransitional" -> "release")
       /\ branch' = Upd(branch, p, Classify(s))
       /\ terr' = Upd(terr, p, NoRet)
       /\ UNCHANGED <<ret, todo, cur>>

\* client.Machine.Get and the switch on the status it returned.
GetMachine(p) ==
  /\ pc[p] = "fetch"
  /\ \E r \in {"ok", "NotFound", "Other"}, s \in Statuses :
       /\ (r = "ok") => nodeExists
       /\ (r = "NotFound") => ~nodeExists
       /\ (status # Unobserved) => (s = status)
       /\ calls' = Log(p, "GetMachine", r, cur[p])
       /\ IF r = "ok"
          THEN /\ status' = s
               /\ machine' = Upd(machine, p, s)
               /\ Dispatch(p, s)
          ELSE /\ s = IF status = Unobserved THEN "Default" ELSE status
               /\ status' = status
               /\ machine' = Upd(machine, p, "none")
               /\ branch' = Upd(branch, p, "none")
               /\ FetchFailed(p, r)
  /\ UNCHANGED <<nodeExists, links, nextId, ops, op, readback, overlap>>

\* client.Machine.Abort in the transitional branch.
Abort(p) ==
  /\ pc[p] = "abort"
  /\ \E r \in {"ok", "fail"}, s \in AbortResult :
       /\ (r = "ok") => nodeExists
       /\ calls' = Log(p, "Abort", r, 0)
       /\ IF r = "ok"
          THEN /\ status' = s
               /\ pc' = Upd(pc, p, "release")
               /\ UNCHANGED <<terr, ret, todo, cur>>
          ELSE /\ TeardownReturn(p, Err("Abort", r))
               /\ UNCHANGED status
  /\ machine' = Upd(machine, p, "none")
  /\ UNCHANGED <<nodeExists, links, nextId, ops, op, branch, readback, overlap>>

\* Release with the error of the call dropped.
ReleaseIgnoreError(p) ==
  /\ pc[p] = "release"
  /\ \E r \in {"ok", "fail"}, s \in ReleaseResult :
       /\ (r = "ok") => nodeExists
       /\ calls' = Log(p, "Release", r, 0)
       /\ status' = IF r = "ok" THEN s ELSE status
       /\ pc' = Upd(pc, p, "unlink")
       /\ UNCHANGED <<terr, ret, todo, cur>>
  /\ machine' = Upd(machine, p, "none")
  /\ UNCHANGED <<nodeExists, links, nextId, ops, op, branch, readback, overlap>>

\* client.Machine.Release in the transitional and non-transitional branches.
Release(p) ==
  /\ pc[p] = "release"
  /\ \E r \in {"ok", "fail"}, s \in ReleaseResult :
       /\ (r = "ok") => nodeExists
       /\ calls' = Log(p, "Release", r, 0)
       /\ IF r = "ok"
          THEN /\ status' = s
               /\ pc' = Upd(pc, p, "unlink")
               /\ UNCHANGED <<terr, ret, todo, cur>>
          ELSE /\ TeardownReturn(p, Err("Release", r))
               /\ UNCHANGED status
  /\ machine' = Upd(machine, p, "none")
  /\ UNCHANGED <<nodeExists, links, nextId, ops, op, branch, readback, overlap>>

\* UnlinkSubnet with the error of the call dropped.
UnlinkSubnetSwallow(p) ==
  /\ pc[p] = "unlink"
  /\ \E r \in {"ok", "fail"} :
       /\ (r = "ok") => (nodeExists /\ cur[p] \in LinkIds(links[op[p].iface]))
       /\ calls' = Log(p, "UnlinkSubnet", r, cur[p])
       /\ links' = IF r = "ok"
                   THEN Upd(links, op[p].iface, GwUnlinkSubnet(links[op[p].iface], cur[p]))
                   ELSE links
       /\ TeardownReturn(p, OK)
  /\ machine' = Upd(machine, p, "none")
  /\ UNCHANGED <<status, nodeExists, nextId, ops, op, branch, readback, overlap>>

\* UnlinkSubnet calling again after an error instead of returning it.
UnlinkSubnetRetry(p) ==
  /\ pc[p] = "unlink"
  /\ \E r \in {"ok", "fail"} :
       /\ (r = "ok") => (nodeExists /\ cur[p] \in LinkIds(links[op[p].iface]))
       /\ calls' = Log(p, "UnlinkSubnet", r, cur[p])
       /\ IF r = "ok"
          THEN /\ links' = Upd(links, op[p].iface, GwUnlinkSubnet(links[op[p].iface], cur[p]))
               /\ TeardownReturn(p, OK)
          ELSE UNCHANGED <<links, pc, terr, ret, todo, cur>>
  /\ machine' = Upd(machine, p, "none")
  /\ UNCHANGED <<status, nodeExists, nextId, ops, op, branch, readback, overlap>>

\* client.NetworkInterface.UnlinkSubnet, the last call of every branch.
UnlinkSubnet(p) ==
  /\ pc[p] = "unlink"
  /\ \E r \in {"ok", "fail"} :
       /\ (r = "ok") => (nodeExists /\ cur[p] \in LinkIds(links[op[p].iface]))
       /\ calls' = Log(p, "UnlinkSubnet", r, cur[p])
       /\ IF r = "ok"
          THEN /\ links' = Upd(links, op[p].iface, GwUnlinkSubnet(links[op[p].iface], cur[p]))
               /\ TeardownReturn(p, OK)
          ELSE /\ TeardownReturn(p, Err("UnlinkSubnet", r))
               /\ UNCHANGED links
  /\ machine' = Upd(machine, p, "none")
  /\ UNCHANGED <<status, nodeExists, nextId, ops, op, branch, readback, overlap>>

(* --------------------- createNetworkInterfaceLink --------------------- *)
\* ReturnedInterface with the response assigned to a new variable that
\* shadows the argument, Links[0] being taken of the argument.
ReturnedInterfaceStale(argument, response) == argument

\* The link ids of the interface createNetworkInterfaceLink takes Links[0]
\* of: the assignment of the LinkSubnet response replaces the argument.
ReturnedInterface(argument, response) == response

\* LinkSubnet returned without an error: &networkInterface.Links[0] is the
\* link Create returns and saves the id of; on an empty list the index is
\* out of range and the handler panics.
LinkSubnetOk(p) ==
  LET after == GwLinkSubnet(links[op[p].iface], nextId, op[p].params)
      ids == ReturnedInterface(op[p].snap, IdsOf(after))
  IN /\ links' = Upd(links, op[p].iface, after)
     /\ nextId' = nextId + 1
     /\ IF ids = <<>>
        THEN /\ pc' = Upd(pc, p, "panic")
             /\ UNCHANGED op
        ELSE /\ op' = Upd(op, p, [op[p] EXCEPT !.linkId = ids[1]])
             /\ pc' = Upd(pc, p, "read")
     /\ UNCHANGED ret

\* LinkSubnet with its error dropped: Create goes on to save an id and read.
LinkSubnetIgnoreError(p) ==
  /\ pc[p] = "linkSubnet"
  /\ \E r \in {"ok", "fail"} :
       /\ (r = "ok") => nodeExists
       /\ calls' = Log(p, "LinkSubnet", r, 0)
       /\ IF r = "ok"
          THEN LinkSubnetOk(p)
          ELSE /\ pc' = Upd(pc, p, "read")
               /\ UNCHANGED <<links, nextId, op, ret>>
  /\ machine' = Upd(machine, p, "none")
  /\ UNCHANGED <<status, nodeExists, ops, todo, cur, branch, terr, readback, overlap>>

\* client.NetworkInterface.LinkSubnet after the range loop; the link
\* returned is Links[0] of the interface in the response, and
\* resourceNetworkInterfaceLinkCreate saves its id before it reads.
LinkSubnet(p) ==
  /\ pc[p] = "linkSubnet"
  /\ \E r \in {"ok", "fail"} :
       /\ (r = "ok") => nodeExists
       /\ calls' = Log(p, "LinkSubnet", r, 0)
       /\ IF r = "ok"
          THEN LinkSubnetOk(p)
          ELSE /\ ret' = Upd(ret, p, Err("LinkSubnet", r))
               /\ pc' = Upd(pc, p, "done")
               /\ UNCHANGED <<links, nextId, op>>
  /\ machine' = Upd(machine, p, "none")
  /\ UNCHANGED <<status, nodeExists, ops, todo, cur, branch, terr, readback, overlap>>

(* ---------------- resourceNetworkInterfaceLinkUpdate ------------------ *)
\* AfterClear without the test of default_gateway.
AfterClearAlwaysSet(want) == "setGw"

\* Where Update goes after a successful ClearDefaultGateways.
AfterClear(want) == IF want THEN "setGw" ELSE "read"

\* client.Machine.ClearDefaultGateways
ClearDefaultGateways(p) ==
  /\ pc[p] = "clearGw"
  /\ \E r \in {"ok", "fail"} :
       /\ (r = "ok") => nodeExists
       /\ calls' = Log(p, "ClearDefaultGateways", r, 0)
       /\ IF r = "ok"
          THEN /\ links' = GwClearDefaultGateways(links)
               /\ pc' = Upd(pc, p, AfterClear(op[p].params.gw))
               /\ UNCHANGED ret
          ELSE /\ ret' = Upd(ret, p, Err("ClearDefaultGateways", r))
               /\ pc' = Upd(pc, p, "done")
               /\ UNCHANGED links
  /\ UNCHANGED <<status, nodeExists, nextId, ops, op, todo, cur, machine, branch, terr, readback, overlap>>

\* client.NetworkInterface.SetDefaultGateway
SetDefaultGateway(p) ==
  /\ pc[p] = "setGw"
  /\ \E r \in {"ok", "fail"} :
       /\ (r = "ok") => (nodeExists /\ op[p].linkId \in LinkIds(links[op[p].iface]))
       /\ calls' = Log(p, "SetDefaultGateway", r, op[p].linkId)
       /\ IF r = "ok"
          THEN /\ links' = Upd(links, op[p].iface, GwSetDefaultGateway(links[op[p].iface], op[p].linkId))
               /\ pc' = Upd(pc, p, "read")
               /\ UNCHANGED ret
          ELSE /\ ret' = Upd(ret, p, Err("SetDefaultGateway", r))
               /\ pc' = Upd(pc, p, "done")
               /\ UNCHANGED links
  /\ UNCHANGED <<status, nodeExists, nextId, ops, op, todo, cur, machine, branch, terr, readback, overlap>>

(* ---------------------- getNetworkInterfaceLink ----------------------- *)
\* FindLink taking the first link of the interface for the one asked for.
FindLinkFirst(ls, id) == IF ls = <<>> THEN NoLink ELSE ls[1]

\* The scan of networkInterface.Links for link.ID == linkID.
FindLink(ls, id) ==
  IF \E k \in 1..Len(ls) : ls[k].id = id
  THEN ls[CHOOSE k \in 1..Len(ls) : ls[k].id = id /\ \A j \in 1..(k - 1) : ls[j].id # id]
  ELSE NoLink

\* client.NetworkInterface.Get and the scan; Create and Update end with it
\* (resourceNetworkInterfaceLinkRead).
GetInterface(p) ==
  /\ pc[p] = "read"
  /\ \E r \in {"ok", "fail"} :
       /\ (r = "ok") => nodeExists
       /\ calls' = Log(p, "GetInterface", r, 0)
       /\ IF r = "ok"
          THEN LET found == FindLink(links[op[p].iface], op[p].linkId)
               IN /\ readback' = Upd(readback, p, found)
                  /\ ret' = Upd(ret, p, IF found = NoLink THEN Err("LinkNotFound", "") ELSE OK)
          ELSE /\ ret' = Upd(ret, p, Err("GetInterface", r))
               /\ UNCHANGED readback
       /\ pc' = Upd(pc, p, "done")
  /\ UNCHANGED <<gateway, ops, op, todo, cur, machine, branch, terr, overlap>>

(* ------------------------- between handlers --------------------------- *)
\* The handler has returned; the next one starts with fresh locals.
Return(p) ==
  /\ pc[p] = "done"
  /\ pc' = Upd(pc, p, "idle")
  /\ op' = Upd(op, p, NoOp)
  /\ todo' = Upd(todo, p, <<>>)
  /\ cur' = Upd(cur, p, 0)
  /\ machine' = Upd(machine, p, "none")
  /\ branch' = Upd(branch, p, "none")
  /\ calls' = Upd(calls, p, <<>>)
  /\ terr' = Upd(terr, p, NoRet)
  /\ ret' = Upd(ret, p, NoRet)
  /\ readback' = Upd(readback, p, NoLink)
  /\ overlap' = Upd(overlap, p, FALSE)
  /\ status' = Unobserved
  /\ UNCHANGED <<nodeExists, links, nextId, ops>>

\* The management system destroys the node, and its interfaces with it.
EnvDestroyNode ==
  /\ nodeExists
  /\ nodeExists' = FALSE
  /\ links' = [i \in Ifaces |-> <<>>]
  /\ UNCHANGED <<status, nextId, ops, pc, op, todo, cur, machine, branch, calls, terr, ret, readback, overlap>>

Step(p) ==
  \/ CreateStart(p)
  \/ DeleteStart(p)
  \/ UpdateStart(p)
  \/ ReadStart(p)
  \/ GetMachine(p)
  \/ Abort(p)
  \/ Release(p)
  \/ UnlinkSubnet(p)
  \/ LinkSubnet(p)
  \/ ClearDefaultGateways(p)
  \/ SetDefaultGateway(p)
  \/ GetInterface(p)
  \/ Return(p)

\* The handlers of one node run one at a time.
Next ==
  \/ Step(Main)
  \/ EnvDestroyNode

Spec == Init /\ [][Next]_vars

(* ----------------------- concurrent updates --------------------------- *)
\* Each process is one invocation of resourceNetworkInterfaceLinkUpdate.
ConcurrentUpdateStart(p) == ops[p] = 0 /\ UpdateStart(p)

\* The steps of resourceNetworkInterfaceLinkUpdate.
UpdateStep(p) ==
  \/ ConcurrentUpdateStart(p)
  \/ ClearDefaultGateways(p)
  \/ SetDefaultGateway(p)
  \/ GetInterface(p)
  \/ Return(p)

\* Two Update invocations on one node with nothing serialising them: their
\* steps interleave in any order, one after the other included.
NextConcurrent == \E p \in Procs : UpdateStep(p)

SpecConcurrent == Init /\ [][NextConcurrent]_vars

(* ====================================================================== *)
(*                              properties                                *)
(* ====================================================================== *)
Names(s) == [k \in 1..Len(s) |-> s[k].call]
IsPrefix(a, b) == Len(a) <= Len(b) /\ \A k \in 1..Len(a) : a[k] = b[k]
AllOk(s) == \A k \in 1..Len(s) : s[k].res = "ok"
Failed(s, c) == \E k \in 1..Len(s) : s[k].call = c /\ s[k].res # "ok"
Issued(s, c) == \E k \in 1..Len(s) : s[k].call = c
Count(s, c) == Cardinality({ k \in 1..Len(s) : s[k].call = c })

\* The calls of the unlinkSubnet invocation p entered last, node fetch first
\* (the calls the handler issues after unlinkSubnet returned are left out).
LastTeardown(p) ==
  LET fs == { k \in 1..Len(calls[p]) : calls[p][k].call = "GetMachine" }
      first == CHOOSE k \in fs : \A j \in fs : j <= k
      after == { k \in first..Len(calls[p]) :
                   calls[p][k].call \in {"LinkSubnet", "GetInterface"} }
      last == IF after = {} THEN Len(calls[p])
              ELSE (CHOOSE k \in after : \A j \in after : k <= j) - 1
  IN IF fs = {} THEN <<>> ELSE SubSeq(calls[p], first, last)

\* That invocation has returned.
Returned(p) == terr[p] # NoRet

TransitionalCalls == <<"GetMachine", "Abort", "Release", "UnlinkSubnet">>
NonTransitionalCalls == <<"GetMachine", "Release", "UnlinkSubnet">>
ValidCalls == <<"GetMachine", "UnlinkSubnet">>

\* C1: every status of the Transitional set takes unlinkSubnet into the
\* transitional case, and there it issues its calls in the order abort,
\* release, unlink: when it has returned and every call succeeded, these
\* three are exactly the calls after the fetch; when abort failed, abort is
\* the last call and its error is what unlinkSubnet and the handler return.
C1_TransitionalAbortReleaseUnlink ==
  \A p \in Procs :
    LET t == LastTeardown(p)
    IN /\ machine[p] \in Transitional => branch[p] = "Transitional"
       /\ branch[p] = "Transitional" =>
            /\ IsPrefix(Names(t), TransitionalCalls)
            /\ (Returned(p) /\ AllOk(t)) => Names(t) = TransitionalCalls
            /\ Failed(t, "Abort") =>
                 /\ Names(t) = <<"GetMachine", "Abort">>
                 /\ terr[p] = Err("Abort", "fail")
                 /\ ret[p] = Err("Abort", "fail")

C1_Witness ==
  \E p \in Procs :
    /\ branch[p] = "Transitional"
    /\ terr[p] = OK
    /\ Names(LastTeardown(p)) = TransitionalCalls
    /\ AllOk(LastTeardown(p))

\* C2: every status of the NonTransitional set takes unlinkSubnet into the
\* non-transitional case, and there it issues release and then unlink,
\* exactly these two after the fetch when it has returned and every call
\* succeeded, and never abort.
C2_NonTransitionalReleaseUnlink ==
  \A p \in Procs :
    LET t == LastTeardown(p)
    IN /\ machine[p] \in NonTransitional => branch[p] = "NonTransitional"
       /\ branch[p] = "NonTransitional" =>
            /\ IsPrefix(Names(t), NonTransitionalCalls)
            /\ (Returned(p) /\ AllOk(t)) => Names(t) = NonTransitionalCalls
            /\ ~Issued(t, "Abort")

C2_Witness ==
  \E p \in Procs :
    /\ branch[p] = "NonTransitional"
    /\ terr[p] = OK
    /\ Names(LastTeardown(p)) = NonTransitionalCalls
    /\ AllOk(LastTeardown(p))

\* C3: every status of the Valid set takes unlinkSubnet into the valid case,
\* and there it issues unlink and nothing else after the fetch, neither abort
\* nor release; an error of unlink is what unlinkSubnet and the handler
\* return.
C3_ValidUnlinkOnly ==
  \A p \in Procs :
    LET t == LastTeardown(p)
    IN /\ machine[p] \in Valid => branch[p] = "Valid"
       /\ branch[p] = "Valid" =>
            /\ IsPrefix(Names(t), ValidCalls)
            /\ Returned(p) => Names(t) = ValidCalls
            /\ ~Issued(t, "Abort") /\ ~Issued(t, "Release")
            /\ Failed(t, "UnlinkSubnet") =>
                 /\ terr[p] = Err("UnlinkSubnet", "fail")
                 /\ ret[p] = Err("UnlinkSubnet", "fail")

C3_Witness ==
  \E p \in Procs :
    /\ branch[p] = "Valid"
    /\ Names(LastTeardown(p)) = ValidCalls
    /\ Failed(LastTeardown(p), "UnlinkSubnet")
    /\ ret[p] = Err("UnlinkSubnet", "fail")

\* The fetch succeeded with a status that is in none of the three sets.
FetchedUnknown(p) ==
  /\ machine[p] # "none"
  /\ machine[p] \notin (Valid \cup Transitional \cup NonTransitional)

\* C4: with a node fetched in a status outside the three sets, unlinkSubnet
\* returns the unsafe-state error, the fetch is its only call, and the step
\* that returns the error leaves every interface's links as they were.
C4_UnknownRefused ==
  /\ [](\A p \in Procs :
          FetchedUnknown(p) =>
            /\ Names(LastTeardown(p)) = <<"GetMachine">>
            /\ pc[p] = "done"
            /\ terr[p] = Err("UnsafeState", machine[p])
            /\ ret[p] = Err("UnsafeState", machine[p]))
  /\ [][\A p \in Procs :
          (pc[p] = "fetch" /\ FetchedUnknown(p)') => links' = links]_vars

C4_Witness ==
  \E p \in Procs :
    /\ FetchedUnknown(p)
    /\ op[p].kind = "delete"
    /\ op[p].linkId \in LinkIds(links[op[p].iface])
    /\ ret[p] = Err("UnsafeState", "Default")

\* C5: when the node fetch fails with NotFound, unlinkSubnet returns success
\* and the fetch is its only call.
C5_NotFoundNoOp ==
  \A p \in Procs :
    LET t == LastTeardown(p)
    IN (t # <<>> /\ t[1].res = "NotFound") =>
         /\ Names(t) = <<"GetMachine">>
         /\ terr[p] = OK
         /\ (op[p].kind = "delete") => ret[p] = OK

C5_Witness ==
  \E p \in Procs :
    /\ op[p].kind = "delete"
    /\ Names(calls[p]) = <<"GetMachine">>
    /\ calls[p][1].res = "NotFound"
    /\ ret[p] = OK

\* C6: when the node fetch fails with an error other than NotFound,
\* unlinkSubnet returns that error.
C6_FetchErrorReturned ==
  \A p \in Procs :
    LET t == LastTeardown(p)
    IN (t # <<>> /\ t[1].res = "Other") => terr[p] = Err("GetMachine", "Other")

\* C7: when release fails, in the transitional or the non-transitional
\* case, it is the last call of unlinkSubnet (unlink is not called) and its
\* error is what unlinkSubnet and the handler return.
C7_ReleaseErrorStops ==
  \A p \in Procs :
    LET t == LastTeardown(p)
    IN Failed(t, "Release") =>
         /\ branch[p] \in {"Transitional", "NonTransitional"}
         /\ t[Len(t)].call = "Release"
         /\ ~Issued(t, "UnlinkSubnet")
         /\ terr[p] = Err("Release", "fail")
         /\ ret[p] = Err("Release", "fail")
         /\ pc[p] = "done"

C7_Witness ==
  \E p \in Procs :
    /\ op[p].kind = "delete"
    /\ branch[p] = "Transitional"
    /\ Names(calls[p]) = <<"GetMachine", "Abort", "Release">>
    /\ calls[p][3].res = "fail"
    /\ ret[p] = Err("Release", "fail")

\* The link ids of the unlinkSubnet invocations the handler has entered.
TeardownIds(p) ==
  LET RECURSIVE Ids(_)
      Ids(s) == IF s = <<>> THEN <<>>
                ELSE IF Head(s).call = "GetMachine"
                     THEN <<Head(s).arg>> \o Ids(Tail(s))
                     ELSE Ids(Tail(s))
  IN Ids(calls[p])

TeardownCalls == {"GetMachine", "Abort", "Release", "UnlinkSubnet"}

\* C8: Create enters unlinkSubnet once per link of the resolved interface, in
\* their order; LinkSubnet is called once, after all N of them, and no call
\* of a teardown comes after it; when an unlinkSubnet returned an error,
\* LinkSubnet is not called and Create returns that error.
C8_CreateTeardownsThenLink ==
  \A p \in Procs :
    op[p].kind = "create" =>
      /\ IsPrefix(TeardownIds(p), op[p].snap)
      /\ Issued(calls[p], "LinkSubnet") =>
           /\ TeardownIds(p) = op[p].snap
           /\ Count(calls[p], "GetMachine") = Len(op[p].snap)
           /\ Count(calls[p], "LinkSubnet") = 1
           /\ \A j, k \in 1..Len(calls[p]) :
                (calls[p][j].call \in TeardownCalls /\ calls[p][k].call = "LinkSubnet")
                  => j < k
      /\ (Returned(p) /\ ~terr[p].ok) =>
           /\ ~Issued(calls[p], "LinkSubnet")
           /\ pc[p] = "done"
           /\ ret[p] = terr[p]

C8_Witness ==
  \E p \in Procs :
    /\ op[p].kind = "create"
    /\ Len(op[p].snap) = 2
    /\ Count(calls[p], "GetMachine") = 2
    /\ Count(calls[p], "UnlinkSubnet") = 2
    /\ \E k \in 1..Len(calls[p]) : calls[p][k] = Call("LinkSubnet", "ok", 0)

\* The links of the node that hold the default gateway.
DefaultGateways == { l \in AllLinks : l.gw }

\* C9: at most one link of the node has default_gateway = true.
C9_AtMostOneDefaultGateway == Cardinality(DefaultGateways) <= 1

\* C10: Update calls ClearDefaultGateways first; with default_gateway true it
\* calls SetDefaultGateway next, once and only after a successful clear;
\* with default_gateway false it never calls SetDefaultGateway; when
\* ClearDefaultGateways failed, Update returns its error with no other call.
C10_UpdateClearThenSet ==
  \A p \in Procs :
    op[p].kind = "update" =>
      /\ IsPrefix(Names(calls[p]),
                  IF op[p].params.gw
                  THEN <<"ClearDefaultGateways", "SetDefaultGateway", "GetInterface">>
                  ELSE <<"ClearDefaultGateways", "GetInterface">>)
      /\ Issued(calls[p], "SetDefaultGateway") =>
           /\ op[p].params.gw
           /\ calls[p][1] = Call("ClearDefaultGateways", "ok", 0)
      /\ (op[p].params.gw /\ ret[p] = OK) => Issued(calls[p], "SetDefaultGateway")
      /\ Failed(calls[p], "ClearDefaultGateways") =>
           /\ Len(calls[p]) = 1
           /\ ret[p] = Err("ClearDefaultGateways", "fail")

C10_Witness ==
  \E p \in Procs :
    /\ op[p].kind = "update"
    /\ op[p].params.gw
    /\ Names(calls[p]) = <<"ClearDefaultGateways", "SetDefaultGateway", "GetInterface">>
    /\ AllOk(calls[p])
    /\ ret[p] = OK

\* Create has returned without an error and the node is still there.
CreateSucceeded(p) ==
  /\ op[p].kind = "create"
  /\ pc[p] = "done"
  /\ ret[p] = OK
  /\ nodeExists

\* C11: after a successful Create the interface holds exactly one link, the
\* one this Create made: none of the links the interface had before is left,
\* whatever the teardowns of those links did (the no-op taken when the node
\* fetch failed included).
C11_CreateLeavesOneLink ==
  \A p \in Procs :
    CreateSucceeded(p) =>
      /\ Len(links[op[p].iface]) = 1
      /\ LinkIds(links[op[p].iface]) \cap SeqToSet(op[p].snap) = {}

\* C12: the link a successful Create returned (and saved the id of) is the
\* link that Create made: it is none of the links the interface had before,
\* and the Read with its id yields the mode and ip_address given to Create.
C12_CreateReturnsNewLink ==
  \A p \in Procs :
    CreateSucceeded(p) =>
      /\ op[p].linkId \notin SeqToSet(op[p].snap)
      /\ readback[p].id = op[p].linkId
      /\ readback[p].mode = op[p].params.mode
      /\ readback[p].ip = op[p].params.ip

\* C13: getNetworkInterfaceLink returns the link of the fetched interface
\* that has the id asked for when the interface has one, the link-not-found
\* error when it has none, and the error of client.NetworkInterface.Get when
\* that call failed; the step changes nothing of the node, its interfaces or
\* their links, and the fetch of the interface is the only call of Read.
C13_ReadFindsById ==
  /\ [](\A p \in Procs :
          op[p].kind = "read" => IsPrefix(Names(calls[p]), <<"GetInterface">>))
  /\ [][\A p \in Procs :
          (pc[p] = "read" /\ pc'[p] = "done") =>
            LET ls == links[op[p].iface]
                hits == { k \in 1..Len(ls) : ls[k].id = op[p].linkId }
                r == calls'[p][Len(calls'[p])]
            IN /\ UNCHANGED gateway
               /\ r.call = "GetInterface"
               /\ (r.res = "ok" /\ hits # {}) =>
                    /\ ret'[p] = OK
                    /\ readback'[p] \in { ls[k] : k \in hits }
               /\ (r.res = "ok" /\ hits = {}) =>
                    /\ ret'[p] = Err("LinkNotFound", "")
                    /\ readback'[p] = NoLink
               /\ (r.res # "ok") => ret'[p] = Err("GetInterface", "fail")]_vars

C13_Witness ==
  \E p \in Procs :
    /\ op[p].kind = "read"
    /\ pc[p] = "done"
    /\ ret[p] = OK
    /\ Len(links[op[p].iface]) = 2
    /\ links[op[p].iface][2].id = op[p].linkId
    /\ readback[p] = links[op[p].iface][2]

\* The status sets of the three cases of the switch, by the name of the case.
CaseSet(c) ==
  CASE c = "Valid" -> Valid
    [] c = "Transitional" -> Transitional
    [] c = "NonTransitional" -> NonTransitional

CaseNames == {"Valid", "Transitional", "NonTransitional"}

\* A status value the enumeration does not have.
Unlisted == "Unlisted"

\* The table of the switch: the three status sets are pairwise disjoint, and
\* every status is in exactly one of Valid, Transitional, NonTransitional,
\* Unknown, a status in none of the three sets being Unknown.
ClassificationTable ==
  /\ \A c, d \in CaseNames : (c # d) => (CaseSet(c) \cap CaseSet(d) = {})
  /\ \A s \in Statuses \cup {Unlisted} :
       /\ Cardinality({ c \in CaseNames : s \in CaseSet(c) }) <= 1
       /\ \A c \in CaseNames : (Classify(s) = c) <=> (s \in CaseSet(c))
       /\ (Classify(s) = "Unknown") <=> (\A c \in CaseNames : s \notin CaseSet(c))
  /\ Classify("Default") = "Unknown"

\* C14: the classification is total and deterministic (ClassificationTable);
\* a fetched status takes unlinkSubnet into the case of its own set and no
\* other, and a fetched status of none of the three sets (the default
\* status) into no case: neither abort, release nor unlink is pending or
\* called.
C14_ClassificationTotal ==
  /\ ClassificationTable
  /\ \A p \in Procs :
       machine[p] # "none" =>
         /\ \A c \in CaseNames : (branch[p] = c) <=> (machine[p] \in CaseSet(c))
         /\ (\A c \in CaseNames : machine[p] \notin CaseSet(c)) =>
              /\ branch[p] = "none"
              /\ pc[p] \notin {"abort", "release", "unlink"}
              /\ Names(LastTeardown(p)) = <<"GetMachine">>

C14_Witness ==
  \E p \in Procs :
    /\ op[p].kind = "create"
    /\ Len(op[p].snap) = 2
    /\ machine[p] = "Default"
    /\ branch[p] = "none"
    /\ Names(calls[p]) = <<"GetMachine">>
    /\ ret[p] = Err("UnsafeState", "Default")

\* C15: whenever unlinkSubnet is about to issue the unlink call, the node is
\* in a status of the Valid set: in the transitional and non-transitional
\* cases after the abort and release calls, in the valid case still.
C15_ValidAtUnlink ==
  \A p \in Procs : pc[p] = "unlink" => status \in Valid

\* The calls of Create whose error ends it.
FailingCalls == {"Abort", "Release", "UnlinkSubnet", "LinkSubnet"}

\* The link ids the handler has unlinked.
Unlinked(p) ==
  { calls[p][k].arg : k \in { j \in 1..Len(calls[p]) :
                                calls[p][j] = Call("UnlinkSubnet", "ok", calls[p][j].arg) } }

\* Create has returned the error of a teardown or of LinkSubnet.
CreateFailed(p) ==
  /\ op[p].kind = "create"
  /\ pc[p] = "done"
  /\ ret[p].from \in FailingCalls \cup {"UnsafeState"}

\* C17: when a call of a teardown or the LinkSubnet call of Create fails, it
\* is the last call Create issues and Create returns its error; the failing
\* step changes no link and no status, and the interface is left with the
\* links it had less the ones the earlier teardowns unlinked (nothing is put
\* back, nothing else is removed); after Create returned it issues no call.
C17_CreateFailureNoRollback ==
  /\ [](\A p \in Procs :
          op[p].kind = "create" =>
            LET fails == { k \in 1..Len(calls[p]) :
                             /\ calls[p][k].call \in FailingCalls
                             /\ calls[p][k].res # "ok" }
            IN /\ fails # {} =>
                    /\ fails = {Len(calls[p])}
                    /\ CreateFailed(p)
                    /\ ret[p] = Err(calls[p][Len(calls[p])].call, "fail")
               /\ (CreateFailed(p) /\ ret[p].from = "UnsafeState") =>
                    calls[p][Len(calls[p])].call = "GetMachine"
               /\ (CreateFailed(p) /\ nodeExists) =>
                    LinkIds(links[op[p].iface]) = SeqToSet(op[p].snap) \ Unlinked(p))
  /\ [][\A p \in Procs :
          /\ (pc[p] # "done" /\ CreateFailed(p)') =>
               /\ links' = links
               /\ nextId' = nextId
               /\ (status # Unobserved) => (status' = status)
          /\ (pc[p] = "done" /\ pc'[p] = "done") => calls'[p] = calls[p]]_vars

C17_Witness ==
  \E p \in Procs :
    /\ CreateFailed(p)
    /\ Len(op[p].snap) = 2
    /\ ret[p] = Err("Release", "fail")
    /\ Count(calls[p], "Abort") = 2
    /\ Unlinked(p) = {op[p].snap[1]}
    /\ LinkIds(links[op[p].iface]) = {op[p].snap[2]}
    /\ status \in AbortResult

\* unlinkSubnet is running: a call of it is the next step.
InTeardown(p) == pc[p] \in {"fetch", "abort", "release", "unlink"}

\* The calls unlinkSubnet can still issue from a position, at most.
Rank(position) ==
  CASE position = "fetch" -> 4
    [] position = "abort" -> 3
    [] position = "release" -> 2
    [] position = "unlink" -> 1
    [] OTHER -> 0

\* C18: unlinkSubnet issues the node fetch first and each of fetch, abort,
\* release and unlink at most once, and no call after one that failed; while
\* it runs its next call can always be issued, and every call either brings
\* it nearer to its end (at most four calls) or is its last, after which it
\* has returned success or an error.
C18_TeardownTerminates ==
  /\ [](\A p \in Procs :
          LET t == LastTeardown(p)
          IN /\ \A c \in TeardownCalls : Count(t, c) <= 1
             /\ Len(t) <= 4
             /\ (t # <<>>) => (t[1].call = "GetMachine")
             /\ \A k \in 1..Len(t) : (t[k].res # "ok") => (k = Len(t))
             /\ InTeardown(p) =>
                  ENABLED (GetMachine(p) \/ Abort(p) \/ Release(p) \/ UnlinkSubnet(p)))
  /\ [][\A p \in Procs :
          (InTeardown(p) /\ calls'[p] # calls[p]) =>
            IF InTeardown(p)' /\ cur'[p] = cur[p]
            THEN terr'[p] = NoRet /\ Rank(pc'[p]) < Rank(pc[p])
            ELSE terr'[p] # NoRet /\ (terr'[p].ok => terr'[p] = OK)]_vars

C18_Witness ==
  \E p \in Procs :
    /\ op[p].kind = "delete"
    /\ Names(calls[p]) = TransitionalCalls
    /\ calls[p][4].res = "fail"
    /\ terr[p] = Err("UnlinkSubnet", "fail")
    /\ pc[p] = "done"

\* The links of every interface without their default-gateway role.
Attributes(all) ==
  [i \in Ifaces |->
     [k \in 1..Len(all[i]) |->
        [id |-> all[i][k].id, mode |-> all[i][k].mode, ip |-> all[i][k].ip]]]

UpdateCalls == {"ClearDefaultGateways", "SetDefaultGateway", "GetInterface"}

\* C19: Update calls nothing but ClearDefaultGateways, SetDefaultGateway
\* and the fetch of the interface, and no step of it, its start and each of
\* its calls, changes the node's status or existence, the links an interface
\* has, their order, or a link's id, mode or ip_address: only the
\* default-gateway role of links changes.
C19_UpdateFrame ==
  /\ [](\A p \in Procs :
          op[p].kind = "update" =>
            \A k \in 1..Len(calls[p]) : calls[p][k].call \in UpdateCalls)
  /\ [][\A p \in Procs :
          (op'[p].kind = "update" /\ (op[p].kind # "update" \/ calls'[p] # calls[p])) =>
            /\ status' = status
            /\ nodeExists' = nodeExists
            /\ nextId' = nextId
            /\ Attributes(links') = Attributes(links)]_vars

C19_Witness ==
  \E p \in Procs :
    /\ op[p].kind = "update"
    /\ op[p].params.gw
    /\ pc[p] = "done"
    /\ ret[p] = OK
    /\ Len(links[1]) = 1 /\ Len(links[2]) = 1
    /\ DefaultGateways = {FindLink(links[op[p].iface], op[p].linkId)}
    /\ \A l \in AllLinks : l.mode = "AUTO"

\* C20: once LinkSubnet has returned without an error, Links[0] of the
\* interface it returned exists: Create never panics on an empty list, it
\* has a link id to save and goes on to its Read, which ends it with a link
\* or an error.
C20_FirstLinkDefined ==
  \A p \in Procs :
    /\ pc[p] # "panic"
    /\ (op[p].kind = "create" /\ Issued(calls[p], "LinkSubnet") /\ ~Failed(calls[p], "LinkSubnet")) =>
         /\ pc[p] \in {"read", "done"}
         /\ op[p].linkId # 0
         /\ (pc[p] = "done") => (ret[p] # NoRet /\ (ret[p].ok => readback[p].id = op[p].linkId))

C20_Witness ==
  \E p \in Procs :
    /\ op[p].kind = "create"
    /\ op[p].snap = <<>>
    /\ calls[p] = <<Call("LinkSubnet", "ok", 0), Call("GetInterface", "ok", 0)>>
    /\ op[p].linkId = nextId - 1
    /\ ret[p] = OK

\* The Update of p has run with no other handler running at any time of it.
Serialised(p) == ~overlap[p]

\* The link Update was called for.
Target(p) == FindLink(links[op[p].iface], op[p].linkId)

\* C16: Updates of one node that nothing serialises. When an Update that
\* ran serialised completes without an error, the link it was called for is
\* the only link of the node with the default gateway (default_gateway
\* true), or no link has it (false); a second default-gateway link appears
\* only by the SetDefaultGateway of an Update that ran while another handler
\* was running. (That two Updates with default_gateway true on different
\* links can interleave clear, clear, set, set and both complete without an
\* error is C16_Witness.)
C16_UpdateExclusiveWhenSerialised ==
  /\ [][\A p \in Procs :
          (/\ op[p].kind = "update"
           /\ pc[p] = "read" /\ pc'[p] = "done"
           /\ ret'[p] = OK
           /\ Serialised(p)) =>
            DefaultGateways' = IF op[p].params.gw THEN {Target(p)'} ELSE {}]_vars
  /\ [][(Cardinality(DefaultGateways') > 1 /\ Cardinality(DefaultGateways) <= 1) =>
          \E p \in Procs : pc[p] = "setGw" /\ pc'[p] = "read" /\ ~Serialised(p)]_vars

\* Both Updates have cleared and neither has set; then both set.
C16_Witness ==
  \E p, q \in Procs :
    /\ p # q
    /\ op[p].kind = "update" /\ op[q].kind = "update"
    /\ op[p].params.gw /\ op[q].params.gw
    /\ op[p].linkId # op[q].linkId
    /\ pc[p] = "done" /\ pc[q] = "done"
    /\ ret[p] = OK /\ ret[q] = OK
    /\ AllOk(calls[p]) /\ AllOk(calls[q])
    /\ ~Serialised(p) /\ ~Serialised(q)
    /\ DefaultGateways = {Target(p), Target(q)}
    /\ Cardinality(DefaultGateways) = 2

====
